---- MODULE Spec2Model ----
(***************************************************************************)
(* Model of the Fusion Core API (src/app.py): the login handler, the       *)
(* token_required gate in front of the protected endpoints, and the JWT    *)
(* encode/decode calls they make (PyJWT 2.x, HS256).                       *)
(*                                                                         *)
(* Time is counted in ticks, TicksPerSecond ticks to the second, so that   *)
(* the truncation of the expiry to whole seconds done by jwt.encode is     *)
(* visible.  Text segments of a token are pairs (bytes, pad): pad is the   *)
(* value of the bits of the last base64url character that carry no data,   *)
(* which base64.urlsafe_b64decode ignores.  HMAC-SHA256 is a perfect MAC:  *)
(* the tag of a message under a key is the pair (key, message).            *)
(***************************************************************************)
EXTENDS Integers, Sequences, FiniteSets, TLC

VARIABLES
    users,       \* the module-level credential table          (app.py:12-16)
    secretKey,   \* app.config['SECRET_KEY']                  (app.py:9)
    clock,       \* datetime.utcnow(), in ticks
    advances,    \* number of clock advances so far (bounds the run)
    issued,      \* tokens handed out by login that clients kept, with issue
                 \* time and identity (at most MaxIssued are followed)
    req,         \* the last request received
    resp,        \* the response to it
    call         \* the handler invocation the last request led to, if any

vars == <<users, secretKey, clock, advances, issued, req, resp, call>>

(*************************** bounds of the model ***************************)
TicksPerSecond == 2
MaxAdvances == 3
MaxIssued == 1

(**************************** program constants ****************************)
TokenLifetimeHours == 24
MockIdBase == 5

\* datetime.timedelta(hours=24), in seconds and in ticks
ValiditySeconds == TokenLifetimeHours * 3600
ValidityTicks == ValiditySeconds * TicksPerSecond

SECRET_KEY == "fusioncore-secret-key-2024"

UsersTable ==
    [u \in {"admin", "user", "operator"} |->
        CASE u = "admin"    -> [password |-> "admin123", role |-> "administrator", username |-> "admin"]
          [] u = "user"     -> [password |-> "user123", role |-> "analyst", username |-> "user"]
          [] u = "operator" -> [password |-> "operator123", role |-> "operator", username |-> "operator"]]

(******************************* JSON values *******************************)
\* A JSON value as request.get_json() / dict.get() hands it to the handler.
JStr(s) == [t |-> "str", s |-> s]
JNull == [t |-> "null"]
JArray == [t |-> "array"]
JNum(n) == [t |-> "num", n |-> n]

\* Python: x in dict / hash(x).  Lists and dicts are unhashable.
Hashable(v) == v.t \in {"str", "null", "num"}

\* username in users                                           (app.py:42)
InUsers(username) == username.t = "str" /\ username.s \in DOMAIN users

\* .lower() of the passwords the clients try
Lower(s) == IF s = "ADMIN123" THEN "admin123" ELSE s

\* A comparison that ignores case.
PasswordMatches_IgnoreCase(username, password) ==
    password.t = "str" /\ Lower(users[username.s].password) = Lower(password.s)

\* users[username]['password'] == password                     (app.py:42)
PasswordMatches(username, password) ==
    password.t = "str" /\ users[username.s].password = password.s

(****************************** token codec *******************************)
\* base64url text of a byte string: canonical encoders leave the unused
\* trailing bits zero.
b64encode(bytes) == [bytes |-> bytes, pad |-> 0]

\* base64.urlsafe_b64decode: the unused trailing bits are not looked at.
b64decode(text) == text.bytes

JunkBytes == [junk |-> TRUE]

\* HMAC-SHA256(key, signing input)
HMAC(key, msg) == [key |-> key, msg |-> msg]

JwtHeader == [alg |-> "HS256", typ |-> "JWT"]

\* timegm(dt.utctimetuple()): whole seconds, the fraction is dropped.
timegm(ticks) == ticks \div TicksPerSecond

\* jwt.encode(payload, key, algorithm='HS256') with payload['exp'] a datetime
\* given in ticks                                             (app.py:47-50)
jwt_encode(user_data, expTicks, key) ==
    LET h == b64encode(JwtHeader)
        p == b64encode([user |-> user_data, exp |-> timegm(expTicks)])
    IN  <<h, p, b64encode(HMAC(key, <<h, p>>))>>

\* A build that skips the check of the signature
\* (options={'verify_signature': False}).
verify_signature_Off(tok, key) == TRUE

\* PyJWT: hmac.compare_digest(sig, HMAC(key, signing_input)), the signing
\* input being the text of the first two segments.              (app.py:27)
verify_signature(tok, key) == b64decode(tok[3]) = HMAC(key, <<tok[1], tok[2]>>)

\* A check that still accepts the token at the very instant it expires.
validate_exp_Late(payload, now) ==
    "exp" \notin DOMAIN payload \/ payload.exp * TicksPerSecond >= now

\* PyJWT _validate_exp: the token is expired when exp <= now, now being the
\* current time with its fraction of a second.                   (app.py:27)
validate_exp(payload, now) ==
    "exp" \notin DOMAIN payload \/ payload.exp * TicksPerSecond > now

\* jwt.decode(token, key, algorithms=['HS256']) at time now (ticks): the
\* claims, or the exception raised.                            (app.py:27)
jwt_decode(parts, key, now) ==
    IF Len(parts) # 1 \/ "jwt" \notin DOMAIN parts[1]
    THEN [ok |-> FALSE, exc |-> "DecodeError"]
    ELSE LET tok == parts[1].jwt IN
    IF Len(tok) # 3
    THEN [ok |-> FALSE, exc |-> "DecodeError"]
    ELSE LET header  == b64decode(tok[1])
             payload == b64decode(tok[2])
         IN
    IF header = JunkBytes
    THEN [ok |-> FALSE, exc |-> "DecodeError"]
    ELSE IF header.alg # "HS256"
    THEN [ok |-> FALSE, exc |-> "InvalidAlgorithmError"]
    ELSE IF ~verify_signature(tok, key)
    THEN [ok |-> FALSE, exc |-> "InvalidSignatureError"]
    ELSE IF payload = JunkBytes
    THEN [ok |-> FALSE, exc |-> "DecodeError"]
    ELSE IF ~validate_exp(payload, now)
    THEN [ok |-> FALSE, exc |-> "ExpiredSignatureError"]
    ELSE [ok |-> TRUE, data |-> payload]

(******************************** the gate ********************************)
\* An Authorization header value is a sequence of pieces: literal text
\* ([lit |-> "Bearer "]) and token text ([jwt |-> <<h, p, s>>]).  The empty
\* sequence is the empty string.
Lit(s) == [lit |-> s]
Jwt(tok) == [jwt |-> tok]
NoHeader == [present |-> FALSE, parts |-> <<>>]
Header(parts) == [present |-> TRUE, parts |-> parts]

\* token.startswith('Bearer ')                                 (app.py:25)
StartsWithBearer(parts) == parts # <<>> /\ Head(parts) = Lit("Bearer ")

\* token[6:]: one character too few is cut, the blank stays.
StripBearer_Short(parts) == <<Lit(" ")>> \o Tail(parts)

\* token[7:] when the string starts with the 7 characters 'Bearer '  (app.py:26)
StripBearer(parts) == Tail(parts)

Unauthorized(msg) == [status |-> 401, body |-> [message |-> msg]]

\* current_user = data: the whole claims dict is handed on.
decorated_WholeClaims(hdr, key, now) ==
    IF ~hdr.present \/ hdr.parts = <<>>
    THEN [pass |-> FALSE, resp |-> Unauthorized("Token is missing!")]
    ELSE LET token == IF StartsWithBearer(hdr.parts) THEN StripBearer(hdr.parts)
                      ELSE hdr.parts
             d == jwt_decode(token, key, now)
         IN  IF ~d.ok \/ "user" \notin DOMAIN d.data
             THEN [pass |-> FALSE, resp |-> Unauthorized("Token is invalid!")]
             ELSE [pass |-> TRUE, current_user |-> d.data]

\* if token is None: an empty header value goes on to the decoder.
decorated_NoneOnly(hdr, key, now) ==
    IF ~hdr.present
    THEN [pass |-> FALSE, resp |-> Unauthorized("Token is missing!")]
    ELSE LET token == IF StartsWithBearer(hdr.parts) THEN StripBearer(hdr.parts)
                      ELSE hdr.parts
             d == jwt_decode(token, key, now)
         IN  IF ~d.ok \/ "user" \notin DOMAIN d.data
             THEN [pass |-> FALSE, resp |-> Unauthorized("Token is invalid!")]
             ELSE [pass |-> TRUE, current_user |-> d.data.user]

\* except jwt.InvalidTokenError: the KeyError of data['user'] escapes.
decorated_JwtErrorsOnly(hdr, key, now) ==
    IF ~hdr.present \/ hdr.parts = <<>>
    THEN [pass |-> FALSE, resp |-> Unauthorized("Token is missing!")]
    ELSE LET token == IF StartsWithBearer(hdr.parts) THEN StripBearer(hdr.parts)
                      ELSE hdr.parts
             d == jwt_decode(token, key, now)
         IN  IF ~d.ok
             THEN [pass |-> FALSE, resp |-> Unauthorized("Token is invalid!")]
             ELSE IF "user" \notin DOMAIN d.data
             THEN [pass |-> FALSE, resp |-> [status |-> 500, body |-> [error |-> "unhandled"]]]
             ELSE [pass |-> TRUE, current_user |-> d.data.user]

\* token_required.decorated: either the identity context handed to the
\* wrapped operation, or the 401 response.                     (app.py:20-31)
decorated(hdr, key, now) ==
    IF ~hdr.present \/ hdr.parts = <<>>
    THEN [pass |-> FALSE, resp |-> Unauthorized("Token is missing!")]
    ELSE LET token == IF StartsWithBearer(hdr.parts) THEN StripBearer(hdr.parts)
                      ELSE hdr.parts
             d == jwt_decode(token, key, now)
         IN  IF ~d.ok \/ "user" \notin DOMAIN d.data
             THEN [pass |-> FALSE, resp |-> Unauthorized("Token is invalid!")]
             ELSE [pass |-> TRUE, current_user |-> d.data.user]

(***************************** login handler ******************************)
Fault(status) == [status |-> status, body |-> [error |-> "unhandled"]]

AuthFailure == [status |-> 401, body |-> [success |-> FALSE, message |-> "Invalid credentials"]]

\* A login that answers 404 'User not found' for a username it does not know.
login_TellsUnknown(body, key, now) ==
    IF body.t = "badjson" THEN Fault(400)
    ELSE IF body.t # "obj" THEN Fault(500)
    ELSE LET username == body.username
             password == body.password
         IN
    IF ~Hashable(username) THEN Fault(500)
    ELSE IF ~InUsers(username)
    THEN [status |-> 404, body |-> [success |-> FALSE, message |-> "User not found"]]
    ELSE IF PasswordMatches(username, password)
    THEN LET user_data == [username |-> username.s, role |-> users[username.s].role]
             token == jwt_encode(user_data, now + ValidityTicks, key)
         IN  [status |-> 200,
              body |-> [success |-> TRUE, token |-> token, user |-> user_data]]
    ELSE AuthFailure

\* login(): body is what the client posted.  [t |-> "badjson"] is a body
\* request.get_json() cannot parse (it aborts with 400); a body that parses
\* to something other than an object has no .get (AttributeError); an
\* unhashable username makes `username in users` raise TypeError.
\* A key missing from the object reads as None, like a JSON null.  (app.py:35-63)
login(body, key, now) ==
    IF body.t = "badjson" THEN Fault(400)
    ELSE IF body.t # "obj" THEN Fault(500)
    ELSE LET username == body.username
             password == body.password
         IN
    IF ~Hashable(username) THEN Fault(500)
    ELSE IF InUsers(username) /\ PasswordMatches(username, password)
    THEN LET user_data == [username |-> username.s, role |-> users[username.s].role]
             token == jwt_encode(user_data, now + ValidityTicks, key)
         IN  [status |-> 200,
              body |-> [success |-> TRUE, token |-> token, user |-> user_data]]
    ELSE AuthFailure

(*************************** protected handlers ***************************)
\* get_dashboard                                              (app.py:67-74)
get_dashboard(current_user) ==
    [status |-> 200,
     body |-> [total_events |-> 156, total_correlations |-> 42, sigint_events |-> 98,
               buas_events |-> 58, recent_events |-> 23]]

\* get_events: the four literal events (coordinates and texts left out)
\*                                                            (app.py:78-126)
get_events(current_user) ==
    [status |-> 200,
     body |-> [events |-> <<
        [id |-> 1, event_type |-> "SIGINT", confidence |-> 3, source_id |-> "SIG_45872", correlation_count |-> 3],
        [id |-> 2, event_type |-> "BUAS", confidence |-> 2, source_id |-> "BUAS_39164", correlation_count |-> 2],
        [id |-> 3, event_type |-> "SIGINT", confidence |-> 3, source_id |-> "SIG_72651", correlation_count |-> 1],
        [id |-> 4, event_type |-> "BUAS", confidence |-> 3, source_id |-> "BUAS_18395", correlation_count |-> 4]>>]]

\* get_correlations: the four literal correlations           (app.py:130-166)
get_correlations(current_user) ==
    [status |-> 200,
     body |-> [correlations |-> <<
        [event1_id |-> 1, event2_id |-> 2, correlation_type |-> "SIGINT-BUAS"],
        [event1_id |-> 1, event2_id |-> 3, correlation_type |-> "SIGINT-SIGINT"],
        [event1_id |-> 2, event2_id |-> 4, correlation_type |-> "BUAS-BUAS"],
        [event1_id |-> 3, event2_id |-> 4, correlation_type |-> "SIGINT-BUAS"]>>]]

\* {'id': len(data) + 5, **data, 'timestamp': ..., 'correlation_count': 0}:
\* later keys win, so a submitted id replaces the mock id and the submitted
\* timestamp and correlation_count are replaced.               (app.py:176-181)
EventEcho(data, now) ==
    [f \in DOMAIN data \cup {"id", "timestamp", "correlation_count"} |->
        CASE f = "timestamp" -> [utc |-> now]
          [] f = "correlation_count" -> 0
          [] f \in DOMAIN data -> data[f]
          [] OTHER -> Cardinality(DOMAIN data) + MockIdBase]

\* create_event: the body is parsed first, then current_user['username'] is
\* read for the log line, then len(data) and **data.           (app.py:170-182)
create_event(current_user, body, now) ==
    IF body.t = "badjson" THEN Fault(400)
    ELSE IF "username" \notin DOMAIN current_user THEN Fault(500)
    ELSE IF body.t # "obj" THEN Fault(500)
    ELSE [status |-> 200,
          body |-> [success |-> TRUE,
                    message |-> "Intelligence event submitted successfully",
                    event |-> EventEcho(body.fields, now)]]

\* health_check                                              (app.py:185-186)
health_check == [status |-> 200, body |-> [status |-> "healthy", service |-> "Fusion Core API"]]

NoBody == [t |-> "none"]
NoCall == [op |-> "none"]

Handler(op, current_user, body, now) ==
    CASE op = "get_dashboard"    -> get_dashboard(current_user)
      [] op = "get_events"       -> get_events(current_user)
      [] op = "get_correlations" -> get_correlations(current_user)
      [] op = "create_event"     -> create_event(current_user, body, now)

(****************************** what clients send **************************)
LoginUsernames ==
    {JStr("admin"), JStr("user"), JStr("operator"), JStr("mallory"), JNull, JArray}

LoginPasswords ==
    {JStr("admin123"), JStr("user123"), JStr("operator123"), JStr("ADMIN123"), JNull}

LoginBodies ==
    {[t |-> "obj", username |-> u, password |-> p] : u \in LoginUsernames, p \in LoginPasswords}
        \cup {[t |-> "array"], [t |-> "null"], [t |-> "badjson"]}

EventBodies ==
    {[t |-> "obj", fields |-> [event_type |-> "SIGINT"]],
     [t |-> "obj", fields |-> [id |-> 99, correlation_count |-> 7]],
     [t |-> "null"]}

ForgedUser == [username |-> "mallory", role |-> "administrator"]

PadValues == 0..3

\* What a client that holds token tok, and not the secret, can make of it.
Tampered(tok) ==
    {<<tok[1], tok[2], [tok[3] EXCEPT !.pad = k]>> : k \in PadValues \ {tok[3].pad}}
    \cup {<<tok[1], [tok[2] EXCEPT !.pad = 1], tok[3]>>}
    \cup {<<tok[1], tok[2], b64encode(HMAC("attacker-key", <<tok[1], tok[2]>>))>>,
          <<tok[1], b64encode([user |-> ForgedUser,
                               exp |-> b64decode(tok[2]).exp]), tok[3]>>,
          <<tok[1], b64encode([b64decode(tok[2]) EXCEPT !.exp = @ + ValiditySeconds]), tok[3]>>,
          <<tok[1], tok[2], b64encode(JunkBytes)>>,
          <<b64encode([alg |-> "none", typ |-> "JWT"]), tok[2], b64encode(JunkBytes)>>,
          <<tok[1], tok[2]>>}

\* Tokens made without the secret and without an issued token.
Homemade(now) ==
    {jwt_encode(ForgedUser, now + ValidityTicks, "attacker-key"),
     <<b64encode(JunkBytes), b64encode(JunkBytes), b64encode(JunkBytes)>>}

\* Tokens only a holder of the secret can make, which login never issues.
KeyHolderTokens(key, now) ==
    LET h == b64encode(JwtHeader)
        Signed(payload) == <<h, b64encode(payload), b64encode(HMAC(key, <<h, b64encode(payload)>>))>>
    IN  {Signed([exp |-> timegm(now + ValidityTicks)]),
         Signed([user |-> ForgedUser]),
         Signed([user |-> [text |-> "root"], exp |-> timegm(now + ValidityTicks)]),
         Signed([user |-> ForgedUser, exp |-> timegm(now)]),
         Signed(JunkBytes)}

HeadersOf(toks) ==
    {Header(<<Jwt(t)>>) : t \in toks} \cup {Header(<<Lit("Bearer "), Jwt(t)>>) : t \in toks}

IssuedTokens == {i.token : i \in issued}

ClientHeaders ==
    HeadersOf(IssuedTokens)
    \cup {Header(<<Lit("Bearer "), Jwt(t)>>) :
            t \in UNION {Tampered(k) : k \in IssuedTokens} \cup Homemade(clock)}
    \cup {Header(<<Lit("bearer "), Jwt(t)>>) : t \in IssuedTokens}
    \cup {Header(<<Lit("Bearer "), Lit("Bearer "), Jwt(t)>>) : t \in IssuedTokens}
    \cup {NoHeader, Header(<<>>), Header(<<Lit("Bearer ")>>)}

KeyHolderHeaders ==
    ClientHeaders
    \cup {Header(<<Lit("Bearer "), Jwt(t)>>) : t \in KeyHolderTokens(secretKey, clock)}

(********************************* actions ********************************)
Init ==
    /\ users = UsersTable
    /\ secretKey = SECRET_KEY
    /\ clock = 0
    /\ advances = 0
    /\ issued = {}
    /\ req = [op |-> "none"]
    /\ resp = [status |-> 0]
    /\ call = NoCall

\* Requests are served one at a time: a request is taken when none is being
\* served, and Reply ends its scope.
Idle == req.op = "none"

\* A login that replaces the signing key on every success.
Login_Rotates(body) ==
    LET r == login(body, secretKey, clock)
        rec == [token |-> r.body.token, iat |-> clock, user |-> r.body.user]
    IN  /\ Idle
        /\ req' = [op |-> "login", body |-> body]
        /\ resp' = r
        /\ call' = NoCall
        /\ issued' = IF r.status = 200 /\ Cardinality(issued) < MaxIssued
                     THEN issued \cup {rec} ELSE issued
        /\ secretKey' = IF r.status = 200 THEN "rotated" ELSE secretKey
        /\ UNCHANGED <<users, clock, advances>>

\* POST /api/auth/login
Login(body) ==
    LET r == login(body, secretKey, clock)
        rec == [token |-> r.body.token, iat |-> clock, user |-> r.body.user]
    IN  /\ Idle
        /\ req' = [op |-> "login", body |-> body]
        /\ resp' = r
        /\ call' = NoCall
        /\ issued' = IF r.status = 200 /\ Cardinality(issued) < MaxIssued
                     THEN issued \cup {rec} ELSE issued
        /\ UNCHANGED <<users, secretKey, clock, advances>>

\* A request to an endpoint behind @token_required.
Protected(op, hdr, body) ==
    LET g == decorated(hdr, secretKey, clock)
    IN  /\ Idle
        /\ req' = [op |-> op, hdr |-> hdr, body |-> body]
        /\ IF g.pass
           THEN /\ call' = [op |-> op, current_user |-> g.current_user]
                /\ resp' = Handler(op, g.current_user, body, clock)
           ELSE /\ call' = NoCall
                /\ resp' = g.resp
        /\ UNCHANGED <<users, secretKey, clock, advances, issued>>

\* GET /api/dashboard
Dashboard(hdrs) == Idle /\ \E hdr \in hdrs : Protected("get_dashboard", hdr, NoBody)

\* GET /api/events
GetEvents(hdrs) == Idle /\ \E hdr \in hdrs : Protected("get_events", hdr, NoBody)

\* GET /api/correlations
GetCorrelations(hdrs) == Idle /\ \E hdr \in hdrs : Protected("get_correlations", hdr, NoBody)

\* POST /api/events
CreateEvent(hdrs) ==
    Idle /\ \E hdr \in hdrs, body \in EventBodies : Protected("create_event", hdr, body)

\* GET /api/health
HealthCheck ==
    /\ Idle
    /\ req' = [op |-> "health_check"]
    /\ resp' = health_check
    /\ call' = NoCall
    /\ UNCHANGED <<users, secretKey, clock, advances, issued>>

\* The response has been sent; nothing of the request stays behind.
Reply ==
    /\ ~Idle
    /\ req' = [op |-> "none"]
    /\ resp' = [status |-> 0]
    /\ call' = NoCall
    /\ UNCHANGED <<users, secretKey, clock, advances, issued>>

\* Time passes between requests: by one tick, or by one tick less than the token lifetime.
ClockSteps == {1, ValidityTicks - 1}

Tick(d) ==
    /\ Idle
    /\ advances < MaxAdvances
    /\ clock' = clock + d
    /\ advances' = advances + 1
    /\ UNCHANGED <<users, secretKey, issued, req, resp, call>>

AnyLogin == Idle /\ \E body \in LoginBodies : Login(body)

Advance == Idle /\ \E d \in ClockSteps : Tick(d)

\* Clients hold the tokens login gave out and do not know the secret.
Next ==
    \/ AnyLogin
    \/ Dashboard(ClientHeaders)
    \/ GetEvents(ClientHeaders)
    \/ GetCorrelations(ClientHeaders)
    \/ CreateEvent(ClientHeaders)
    \/ HealthCheck
    \/ Reply
    \/ Advance

Spec == Init /\ [][Next]_vars

\* As Next, with clients that can also present any token signed with the
\* secret (another holder of the configuration constant).
NextKeyHolder ==
    \/ AnyLogin
    \/ Dashboard(KeyHolderHeaders)
    \/ GetEvents(KeyHolderHeaders)
    \/ GetCorrelations(KeyHolderHeaders)
    \/ CreateEvent(KeyHolderHeaders)
    \/ HealthCheck
    \/ Reply
    \/ Advance

SpecKeyHolder == Init /\ [][NextKeyHolder]_vars

(***************************************************************************)
(* Properties.  They are read in the state a request leaves behind (req,   *)
(* resp, call) and, for a token clients hold, at every instant of the      *)
(* clock.                                                                  *)
(***************************************************************************)
ProtectedOps == {"get_dashboard", "get_events", "get_correlations", "create_event"}

GateRequest == req.op \in ProtectedOps

MissingToken == [status |-> 401, body |-> [message |-> "Token is missing!"]]

InvalidToken == [status |-> 401, body |-> [message |-> "Token is invalid!"]]

InvalidCredentials ==
    [status |-> 401, body |-> [success |-> FALSE, message |-> "Invalid credentials"]]

BareOf(tok) == Header(<<Jwt(tok)>>)

BearerOf(tok) == Header(<<Lit("Bearer "), Jwt(tok)>>)

\* The credential of a header value: what follows an optional "Bearer ".
CredentialOf(hdr) ==
    IF hdr.parts # <<>> /\ hdr.parts[1] = Lit("Bearer ") THEN Tail(hdr.parts) ELSE hdr.parts

\* The credential is the text of one token.
HasToken(hdr) ==
    hdr.present /\ Len(CredentialOf(hdr)) = 1 /\ "jwt" \in DOMAIN CredentialOf(hdr)[1]

TokenOf(hdr) == CredentialOf(hdr)[1].jwt

\* The exception the decoding of the header value ends in, "none" if none.
GateException(hdr) ==
    LET d == jwt_decode(CredentialOf(hdr), secretKey, clock)
    IN  IF ~d.ok THEN d.exc
        ELSE IF "user" \notin DOMAIN d.data THEN "KeyError" ELSE "none"

Decodes(hdr) == hdr.present /\ GateException(hdr) = "none"

EmbeddedUser(hdr) == b64decode(TokenOf(hdr)[2]).user

\* The expiry written in a token, in ticks.
ExpTicks(tok) == b64decode(tok[2]).exp * TicksPerSecond

AcceptsAt(tok, key, now) == decorated(BearerOf(tok), key, now).pass

\* C1: a protected operation runs only for a request whose Authorization
\* header is present and decodes, with exactly the identity context embedded
\* in the token; every other request to a protected endpoint ends in a 401
\* and the operation is not run.
C1_GateEntry ==
    /\ call.op # "none" =>
          /\ GateRequest /\ call.op = req.op
          /\ Decodes(req.hdr)
          /\ call.current_user = EmbeddedUser(req.hdr)
    /\ (GateRequest /\ Decodes(req.hdr)) => call.op = req.op
    /\ (GateRequest /\ ~Decodes(req.hdr)) => (call.op = "none" /\ resp.status = 401)

C1_Witness ==
    /\ call.op = "create_event"
    /\ call.current_user = [username |-> "admin", role |-> "administrator"]
    /\ req.hdr.parts[1] = Lit("Bearer ")

\* C2: a token issued by login, presented with or without "Bearer " at any
\* time before the expiry written in it, passes the gate with the identity
\* context login returned, username and role unchanged.
C2_RoundTrip ==
    \A i \in issued : \A hdr \in {BareOf(i.token), BearerOf(i.token)} :
        clock < ExpTicks(i.token) =>
            /\ decorated(hdr, secretKey, clock).pass
            /\ decorated(hdr, secretKey, clock).current_user = i.user
            /\ (GateRequest /\ req.hdr = hdr) =>
                  (call.op = req.op /\ call.current_user = i.user)

C2_Witness ==
    /\ GateRequest
    /\ \E i \in issued :
          /\ req.hdr = BearerOf(i.token)
          /\ clock = ExpTicks(i.token) - 1
          /\ call.current_user = i.user

\* C3 as stated: the expiry of a token issued at time t is t + 24 hours, the
\* token is accepted only before t + 24 hours and rejected from then on.
C3_ExpiryIsIssuePlus24h ==
    \A i \in issued :
        /\ ExpTicks(i.token) = i.iat + ValidityTicks
        /\ AcceptsAt(i.token, secretKey, clock) => clock < i.iat + ValidityTicks
        /\ clock >= i.iat + ValidityTicks => ~AcceptsAt(i.token, secretKey, clock)

C3_ExpiryState ==
    \A i \in issued :
        /\ b64decode(i.token[2]).exp = (i.iat \div TicksPerSecond) + TokenLifetimeHours * 3600
        /\ AcceptsAt(i.token, secretKey, clock) <=> clock < ExpTicks(i.token)
        /\ clock >= i.iat + ValidityTicks => ~AcceptsAt(i.token, secretKey, clock)
        /\ (GateRequest /\ req.hdr \in {BareOf(i.token), BearerOf(i.token)}
                /\ clock >= ExpTicks(i.token)) =>
              (resp = InvalidToken /\ call.op = "none")

\* C3, amended: the expiry of a token issued at time t is the whole second t
\* falls in plus 24 hours; the untouched token is accepted exactly while the
\* time is before that expiry, so it is rejected at the expiry instant and
\* whenever the time is t + 24 hours or later; once rejected as expired it
\* is never accepted again.
C3_Expiry ==
    /\ []C3_ExpiryState
    /\ [][\A i \in issued :
            ~AcceptsAt(i.token, secretKey, clock) => ~AcceptsAt(i.token, secretKey', clock')]_vars

C3_Witness ==
    /\ GateRequest
    /\ \E i \in issued :
          /\ req.hdr = BearerOf(i.token)
          /\ i.iat % TicksPerSecond # 0
          /\ clock = ExpTicks(i.token)
          /\ resp = InvalidToken

\* tok is orig with its signature segment changed, or with its payload
\* segment changed and the signature kept.
SignatureChanged(tok, orig) ==
    Len(tok) = 3 /\ tok[1] = orig[1] /\ tok[2] = orig[2] /\ tok[3] # orig[3]

PayloadChanged(tok, orig) ==
    Len(tok) = 3 /\ tok[1] = orig[1] /\ tok[2] # orig[2] /\ tok[3] = orig[3]

\* The signature segment of tok decodes to other bytes than that of orig.
SignatureBytesChanged(tok, orig) ==
    SignatureChanged(tok, orig) /\ b64decode(tok[3]) # b64decode(orig[3])

\* The handler runs only on a token whose signed text and signature bytes
\* are those of a token login issued, and with the identity login minted.
OnlyMinted ==
    call.op # "none" =>
        /\ HasToken(req.hdr)
        /\ \E i \in issued :
              /\ Len(TokenOf(req.hdr)) = 3
              /\ TokenOf(req.hdr)[1] = i.token[1]
              /\ TokenOf(req.hdr)[2] = i.token[2]
              /\ b64decode(TokenOf(req.hdr)[3]) = b64decode(i.token[3])
              /\ call.current_user = i.user

C5_MissingIffAbsent ==
    GateRequest =>
        /\ resp = MissingToken <=> ~req.hdr.present
        /\ req.hdr.present =>
              \/ call.op = req.op /\ resp = Handler(req.op, call.current_user, req.body, clock)
              \/ call.op = "none" /\ resp = InvalidToken

\* C5, amended: 'Token is missing!' exactly when the request has no
\* Authorization header or an empty one; with a non-empty header value the
\* outcome is the operation's result or 'Token is invalid!', a message
\* distinct from the other.
C5_GateSplit ==
    /\ MissingToken.body.message # InvalidToken.body.message
    /\ GateRequest =>
        /\ resp = MissingToken <=> (~req.hdr.present \/ req.hdr.parts = <<>>)
        /\ (req.hdr.present /\ req.hdr.parts # <<>>) =>
              \/ call.op = req.op /\ resp = Handler(req.op, call.current_user, req.body, clock)
              \/ call.op = "none" /\ resp = InvalidToken

C5_Witness ==
    GateRequest /\ req.hdr = Header(<<>>) /\ resp = MissingToken /\ call.op = "none"

ExpectedRole(u) ==
    CASE u = "admin" -> "administrator"
      [] u = "user" -> "analyst"
      [] u = "operator" -> "operator"

\* The posted username is a key of the credential table and the posted
\* password is the stored one.
CredentialsOK(body) ==
    /\ body.t = "obj"
    /\ body.username.t = "str" /\ body.username.s \in DOMAIN UsersTable
    /\ body.password.t = "str" /\ body.password.s = UsersTable[body.username.s].password

\* C6: login succeeds iff the username is a key of the credential table and
\* the password equals the stored one; the identity context returned and the
\* one decoded from the returned token carry that username and the role
\* configured for it.
C6_Login ==
    req.op = "login" =>
        /\ resp.status = 200 <=> CredentialsOK(req.body)
        /\ resp.status = 200 =>
              LET I == [username |-> req.body.username.s,
                        role |-> ExpectedRole(req.body.username.s)]
                  g == decorated(BearerOf(resp.body.token), secretKey, clock)
              IN  /\ resp.body.success
                  /\ resp.body.user = I
                  /\ g.pass /\ g.current_user = I

C6_Witness ==
    /\ req.op = "login" /\ resp.status = 200
    /\ resp.body.user = [username |-> "operator", role |-> "operator"]

\* The class of a failed login that names a username: one the table holds,
\* with another password, or one it does not hold.
FailClass(body) ==
    IF body.t = "obj" /\ Hashable(body.username) /\ ~CredentialsOK(body)
    THEN IF body.username.t = "str" /\ body.username.s \in DOMAIN UsersTable
         THEN "wrong_password" ELSE "unknown_user"
    ELSE "other"

\* C7: a failed login with a known username and a wrong password and a
\* failed login with an unknown username get the same response: 401,
\* {success: false, message: 'Invalid credentials'}, no token.
C7_Undifferentiated ==
    (req.op = "login" /\ FailClass(req.body) \in {"wrong_password", "unknown_user"}) =>
        /\ resp = InvalidCredentials
        /\ \A b \in LoginBodies :
              (FailClass(b) \in {"wrong_password", "unknown_user"} \ {FailClass(req.body)})
                  => login(b, secretKey, clock) = resp

C7_Witness ==
    /\ req.op = "login" /\ FailClass(req.body) = "unknown_user"
    /\ req.body.username = JStr("mallory")
    /\ resp = InvalidCredentials

\* C8: whatever makes the decoding of a presented token fail (malformed
\* text, algorithm, signature, expiry, a signed payload without 'user'),
\* the response is 401 'Token is invalid!' and the operation is not run.
C8_OneInvalidToken ==
    (GateRequest /\ req.hdr.present /\ req.hdr.parts # <<>>
        /\ GateException(req.hdr) \in {"DecodeError", "InvalidAlgorithmError",
                "InvalidSignatureError", "ExpiredSignatureError", "KeyError"})
    => (resp = InvalidToken /\ call.op = "none")

C8_Witness ==
    /\ GateRequest /\ HasToken(req.hdr)
    /\ GateException(req.hdr) = "KeyError"
    /\ resp = InvalidToken

C9_FixedData ==
    /\ users = UsersTable /\ secretKey = SECRET_KEY
    /\ (call.op = "get_dashboard") =>
          (resp.status = 200 /\ resp.body.total_events = 156 /\ resp.body.total_correlations = 42
              /\ resp.body.sigint_events = 98 /\ resp.body.buas_events = 58
              /\ resp.body.recent_events = 23)
    /\ (call.op = "get_events") =>
          (resp.status = 200 /\ [k \in 1..Len(resp.body.events) |-> resp.body.events[k].id] = <<1, 2, 3, 4>>)
    /\ (call.op = "get_correlations") =>
          (resp.status = 200 /\ Len(resp.body.correlations) = 4)
    /\ (call.op = "create_event" /\ resp.status = 200) =>
          resp.body.event.correlation_count = 0

\* C9: no request changes the credential table or the secret; the GET
\* endpoints return their fixed data whatever was posted before; and while
\* the clock stands still no request, no later login either, changes
\* whether a token clients hold is accepted.
C9_NoSharedMutation ==
    /\ []C9_FixedData
    /\ [][/\ users' = users
          /\ secretKey' = secretKey
          /\ clock' = clock =>
                \A i \in issued :
                    AcceptsAt(i.token, secretKey', clock') = AcceptsAt(i.token, secretKey, clock)]_vars

C9_Witness ==
    /\ call.op = "create_event" /\ resp.status = 200
    /\ issued # {}
    /\ clock > 0

\* C10: every login request ends in the success response or in 401
\* 'Invalid credentials'.
C10_LoginTotal ==
    req.op = "login" =>
        \/ resp.status = 200 /\ resp.body.success
        \/ resp = InvalidCredentials
====
